---- MODULE Spec2Model ----
(***************************************************************************)
(* The AI-response pipeline of the child-safety AI microservice:           *)
(*   app/utils/llm_parsers.py   extract_json_from_model_response           *)
(*   app/services/ai_service.py AIService.get_analysis                     *)
(*   app/services/movement.py   MovementAnalysisService                    *)
(*   app/services/route_safety.py RouteSafetyService                       *)
(*   app/api/routes.py          the two POST handlers                      *)
(*                                                                         *)
(* A text is a sequence of lexemes.  Whitespace between lexemes is not     *)
(* represented: every regular expression of the extractor takes \s* around *)
(* its group, the group is strip()ped, and json.loads ignores whitespace   *)
(* between JSON tokens.                                                    *)
(***************************************************************************)
EXTENDS Integers, Sequences, FiniteSets, TLC

VARIABLES
    xphase,   \* extractor harness: "start", "ready" (a text chosen), "done"
    xin,      \* the text handed to extract_json_from_model_response
    xfrom,    \* the JSON value the text was built around (embedded texts)
    xout,     \* what extract_json_from_model_response did with xin
    req       \* the requests: id -> the request's record (pipeline)

vars == <<xphase, xin, xfrom, xout, req>>

-----------------------------------------------------------------------------
(* Lexemes *)

TO == "<think>"
TC == "</think>"
FJ == "[fence json]"   \* the three backquotes followed by json
FE == "[fence]"        \* three backquotes not followed by json
LB == "{"
RB == "}"
Q  == "[quote]"        \* the double-quote character
EQ == "[esc quote]"    \* backslash followed by a double quote
W  == "prose"     \* any run of characters that is no JSON and no markup

\* A member key of an object, as written in JSON text: the separating comma
\* (when the member is not the first), the quoted key and the colon.
KeyNames ==
    {"k", "risk_level", "safety_score", "abnormal_speed", "sudden_stop",
     "route_deviation", "safety_concerns", "reasoning", "recommended_action",
     "risky_segments", "time_of_day_concerns", "recommendation",
     "safe_alternative_available", "is_fallback", "error", "raw_response",
     "analysis_timestamp", "user_id"}

\* Lexemes are strings; a key lexeme is written "<name>:".
KeyTok ==
    [k \in KeyNames |->
        CASE k = "k" -> "k:"
          [] k = "risk_level" -> "risk_level:"
          [] k = "safety_score" -> "safety_score:"
          [] k = "abnormal_speed" -> "abnormal_speed:"
          [] k = "sudden_stop" -> "sudden_stop:"
          [] k = "route_deviation" -> "route_deviation:"
          [] k = "safety_concerns" -> "safety_concerns:"
          [] k = "reasoning" -> "reasoning:"
          [] k = "recommended_action" -> "recommended_action:"
          [] k = "risky_segments" -> "risky_segments:"
          [] k = "time_of_day_concerns" -> "time_of_day_concerns:"
          [] k = "recommendation" -> "recommendation:"
          [] k = "safe_alternative_available" -> "safe_alternative_available:"
          [] k = "is_fallback" -> "is_fallback:"
          [] k = "error" -> "error:"
          [] k = "raw_response" -> "raw_response:"
          [] k = "analysis_timestamp" -> "analysis_timestamp:"
          [] k = "user_id" -> "user_id:"]

IsKeyTok(tok) == \E k \in KeyNames : KeyTok[k] = tok
KeyOfTok(tok) == CHOOSE k \in KeyNames : KeyTok[k] = tok

TRUE_ == "true"
FALSE_ == "false"
NULL_ == "null"
EMPTYLIST == "[]"

\* JSON number literals, as lexemes and as the integers they denote.
NumToks == {"0", "1", "2", "5", "6", "7", "10", "42"}
NumOfTok(tok) ==
    CASE tok = "0" -> 0 [] tok = "1" -> 1 [] tok = "2" -> 2 [] tok = "5" -> 5
      [] tok = "6" -> 6 [] tok = "7" -> 7 [] tok = "10" -> 10 [] tok = "42" -> 42
TokOfNum(n) == CHOOSE tok \in NumToks : NumOfTok(tok) = n

-----------------------------------------------------------------------------
(* JSON values, all of one record shape                                     *)

NoMembers == [k \in {} |-> 0]

Num(n)  == [t |-> "num",  n |-> n, s |-> <<>>, m |-> NoMembers]
Bool(b) == [t |-> "bool", n |-> IF b THEN 1 ELSE 0, s |-> <<>>, m |-> NoMembers]
Null    == [t |-> "null", n |-> 0, s |-> <<>>, m |-> NoMembers]
Str(s)  == [t |-> "str",  n |-> 0, s |-> s,    m |-> NoMembers]
List0   == [t |-> "list", n |-> 0, s |-> <<>>, m |-> NoMembers]
Obj(m)  == [t |-> "obj",  n |-> 0, s |-> <<>>, m |-> m]

\* The element of a one-element set.  { e(x) : x \in {v} } evaluates v once,
\* however often e uses it.
Only(S) == CHOOSE x \in S : TRUE

IsMapping(v) == v.t = "obj"
HasKey(v, k) == v.t = "obj" /\ k \in DOMAIN v.m

\* d[k] = v on a Python dict.
SetItem(d, k, v) == Obj([x \in (DOMAIN d.m) \cup {k} |-> IF x = k THEN v ELSE d.m[x]])

-----------------------------------------------------------------------------
(* json.loads and json.dumps, on lexemes                                    *)

ParseFail == [ok |-> FALSE, val |-> Null, next |-> 0]
Parsed(v, i) == [ok |-> TRUE, val |-> v, next |-> i]

RECURSIVE ParseString(_, _, _)
\* The characters of a string, from position i (after the opening quote) to
\* its closing quote.  An escaped quote stands for a quote character; a key
\* lexeme begins with a quote character, which ends the string in front of the
\* key's name: no JSON continues that way.
ParseString(toks, i, acc) ==
    IF i > Len(toks) THEN ParseFail
    ELSE IF toks[i] = Q THEN Parsed(Str(acc), i + 1)
    ELSE IF IsKeyTok(toks[i]) THEN ParseFail
    ELSE IF toks[i] = EQ THEN ParseString(toks, i + 1, Append(acc, Q))
    ELSE ParseString(toks, i + 1, Append(acc, toks[i]))

RECURSIVE ParseValue(_, _), ParseMembers(_, _, _)
ParseValue(toks, i) ==
    IF i > Len(toks) THEN ParseFail
    ELSE IF toks[i] \in NumToks THEN Parsed(Num(NumOfTok(toks[i])), i + 1)
    ELSE IF toks[i] = TRUE_ THEN Parsed(Bool(TRUE), i + 1)
    ELSE IF toks[i] = FALSE_ THEN Parsed(Bool(FALSE), i + 1)
    ELSE IF toks[i] = NULL_ THEN Parsed(Null, i + 1)
    ELSE IF toks[i] = EMPTYLIST THEN Parsed(List0, i + 1)
    ELSE IF toks[i] = Q THEN ParseString(toks, i + 1, <<>>)
    ELSE IF toks[i] = LB THEN ParseMembers(toks, i + 1, Obj(NoMembers))
    ELSE ParseFail

\* The members of an object from position i to its closing brace; a key that
\* comes twice keeps its last value.
ParseMembers(toks, i, acc) ==
    IF i > Len(toks) THEN ParseFail
    ELSE IF toks[i] = RB THEN Parsed(acc, i + 1)
    ELSE IF IsKeyTok(toks[i]) THEN
        Only({ IF r.ok
               THEN ParseMembers(toks, r.next, SetItem(acc, KeyOfTok(toks[i]), r.val))
               ELSE ParseFail
               : r \in {ParseValue(toks, i + 1)} })
    ELSE ParseFail

\* json.loads(s): one JSON value and nothing after it, or JSONDecodeError.
json_loads(toks) ==
    Only({ IF r.ok /\ r.next = Len(toks) + 1
           THEN [ok |-> TRUE, val |-> r.val]
           ELSE [ok |-> FALSE, val |-> Null]
           : r \in {ParseValue(toks, 1)} })

RECURSIVE EscapeChars(_)
EscapeChars(s) ==
    IF s = <<>> THEN <<>>
    ELSE <<IF Head(s) = Q THEN EQ ELSE Head(s)>> \o EscapeChars(Tail(s))

RECURSIVE json_dumps(_), DumpMembers(_, _)
\* json.dumps(v)
json_dumps(v) ==
    CASE v.t = "num"  -> <<TokOfNum(v.n)>>
      [] v.t = "bool" -> <<IF v.n = 1 THEN TRUE_ ELSE FALSE_>>
      [] v.t = "null" -> <<NULL_>>
      [] v.t = "list" -> <<EMPTYLIST>>
      [] v.t = "str"  -> <<Q>> \o EscapeChars(v.s) \o <<Q>>
      [] v.t = "obj"  -> <<LB>> \o DumpMembers(v.m, DOMAIN v.m) \o <<RB>>

DumpMembers(m, keys) ==
    IF keys = {} THEN <<>>
    ELSE LET k == CHOOSE x \in keys : TRUE IN
         <<KeyTok[k]>> \o json_dumps(m[k]) \o DumpMembers(m, keys \ {k})

-----------------------------------------------------------------------------
(* extract_json_from_model_response                                         *)

RECURSIVE StripFrom(_, _)
\* re.sub(r'<think>[\s\S]*?</think>', '', text): from the left, every <think>
\* that a </think> follows is removed together with everything up to the
\* first such </think>; the scan goes on behind it.
StripFrom(t, i) ==
    IF i > Len(t) THEN <<>>
    ELSE IF t[i] = TO /\ \E j \in (i + 1)..Len(t) : t[j] = TC
         THEN LET j == CHOOSE x \in (i + 1)..Len(t) :
                          /\ t[x] = TC
                          /\ \A y \in (i + 1)..(x - 1) : t[y] # TC
              IN StripFrom(t, j + 1)
         ELSE <<t[i]>> \o StripFrom(t, i + 1)

without_thinking(response_text) == StripFrom(response_text, 1)

NoMatch == [found |-> FALSE, group |-> <<>>]

\* re.search(r'[fence]json\s*([\s\S]*?)\s*[fence]', s): the leftmost opening
\* fence and the nearest three backquotes behind it, which may be the closing
\* fence or the backquotes of another opening fence.
IsFence(tok) == tok = FJ \/ tok = FE
FencedBlock(s) ==
    IF \E i \in 1..Len(s) : s[i] = FJ /\ \E j \in (i + 1)..Len(s) : IsFence(s[j])
    THEN LET i == CHOOSE x \in 1..Len(s) :
                      /\ s[x] = FJ
                      /\ \A y \in 1..(x - 1) : s[y] # FJ
             j == CHOOSE x \in (i + 1)..Len(s) :
                      /\ IsFence(s[x])
                      /\ \A y \in (i + 1)..(x - 1) : ~IsFence(s[y])
         IN [found |-> TRUE, group |-> SubSeq(s, i + 1, j - 1)]
    ELSE NoMatch

\* re.search(r'(\{[\s\S]*\})', s): from the first opening brace to the last
\* closing brace behind it.
BraceSpan(s) ==
    IF \E i, j \in 1..Len(s) : i < j /\ s[i] = LB /\ s[j] = RB
    THEN LET i == CHOOSE x \in 1..Len(s) :
                      s[x] = LB /\ \A y \in 1..(x - 1) : s[y] # LB
             j == CHOOSE x \in 1..Len(s) :
                      s[x] = RB /\ \A y \in (x + 1)..Len(s) : s[y] # RB
         IN [found |-> TRUE, group |-> SubSeq(s, i, j)]
    ELSE NoMatch

\* What a call did: it returned val, or it raised the exception named by tag
\* (doc: the text the exception carries).
Returned(v) == [tag |-> "ok", val |-> v, doc |-> <<>>]
Raised(e, doc) == [tag |-> e, val |-> Null, doc |-> doc]

\* json.loads(json_str) at lines 15 and 21: the JSONDecodeError carries the
\* candidate it could not parse (its doc attribute).
LoadsOrRaise(json_str) ==
    Only({ IF r.ok THEN Returned(r.val) ELSE Raised("JSONDecodeError", json_str)
           : r \in {json_loads(json_str)} })

extract_json_from_model_response(response_text) ==
    Only({ Only({ IF fenced.found THEN LoadsOrRaise(fenced.group)
                  ELSE Only({ IF braces.found THEN LoadsOrRaise(braces.group)
                              ELSE Raised("ValueError", <<>>)
                              : braces \in {BraceSpan(wt)} })
                  : fenced \in {FencedBlock(wt)} })
           : wt \in {without_thinking(response_text)} })

-----------------------------------------------------------------------------
(* The extractor on its own: a text is chosen, then extracted               *)

MaxTextLen == 4     \* lexemes in an enumerated text
MaxStrLen == 2      \* characters in a string value of an embedded JSON value

\* The lexemes the enumerated texts are made of.
TextToks == {TO, TC, FJ, FE, LB, RB, Q, KeyTok["k"], "6", W}

RECURSIVE SeqsUpTo(_, _)
SeqsUpTo(S, n) ==
    IF n = 0 THEN {<<>>}
    ELSE LET shorter == SeqsUpTo(S, n - 1) IN
         shorter \cup {Append(q, x) : q \in {y \in shorter : Len(y) = n - 1}, x \in S}

RawTexts == SeqsUpTo(TextToks, MaxTextLen)

\* The characters a string value is made of: prose, markup, braces, quotes.
StrChars == {W, TO, TC, FE, LB, RB, Q}
Strings == {Str(s) : s \in SeqsUpTo(StrChars, MaxStrLen)}
Scalars == {Num(6), Bool(TRUE), Null, List0}
Mappings ==
    {Obj(NoMembers)}
    \cup {Obj([k \in {"k"} |-> v]) : v \in Scalars \cup Strings}
    \cup {Obj([k \in {"k", "risk_level"} |-> IF k = "k" THEN v ELSE Num(6)]) : v \in Strings}
JsonValues == Scalars \cup Strings \cup Mappings

\* What may stand in front of and behind a fenced block: nothing, prose, a
\* think block, an earlier fenced block that is no JSON.
Prefixes == {<<>>, <<W>>, <<TO, W, TC>>, <<W, TO, LB, RB, TC, W>>, <<FJ, W, FE, W>>}
Suffixes == {<<>>, <<W>>, <<W, LB, W, RB>>}

NotEmbedded == [emb |-> FALSE, val |-> Null, pre |-> <<>>, post |-> <<>>]

XInit ==
    /\ xphase = "start"
    /\ xin = <<>>
    /\ xfrom = NotEmbedded
    /\ xout = Returned(Null)
    /\ req = <<>>

\* Any text of up to MaxTextLen lexemes.
ChooseText ==
    /\ xphase = "start"
    /\ \E t \in RawTexts : xin' = t
    /\ xphase' = "ready"
    /\ UNCHANGED <<xfrom, xout, req>>

\* A text that holds json.dumps(v) in a fenced json block.
EmbedFenced ==
    /\ xphase = "start"
    /\ \E v \in JsonValues, pre \in Prefixes, post \in Suffixes :
          /\ xin' = pre \o <<FJ>> \o json_dumps(v) \o <<FE>> \o post
          /\ xfrom' = [emb |-> TRUE, val |-> v, pre |-> pre, post |-> post]
    /\ xphase' = "ready"
    /\ UNCHANGED <<xout, req>>

Extract ==
    /\ xphase = "ready"
    /\ xout' = extract_json_from_model_response(xin)
    /\ xphase' = "done"
    /\ UNCHANGED <<xin, xfrom, req>>

XNext == ChooseText \/ EmbedFenced \/ Extract

SpecX == XInit /\ [][XNext]_vars

-----------------------------------------------------------------------------
(* AIService.get_analysis                                                   *)

\* The exception classes that occur, and isinstance(e, cls).
TransportErrors == {"ConnectError", "ResponseError"}
\* (a handler that takes the named class only, no subclass)
IsExactly(e, cls) == e = cls

IsInstance(e, cls) ==
    CASE cls = "Exception"       -> e # "ok"
      [] cls = "JSONDecodeError" -> e = "JSONDecodeError"
      [] cls = "ValueError"      -> e \in {"ValueError", "JSONDecodeError"}

\* What awaiting self.client.chat(...) gives: a response whose message content
\* is a text, or an exception of the client (a transport error, or the
\* JSONDecodeError of a response body that is no JSON).
ChatReturned(text) == [tag |-> "ok", content |-> text]
ChatRaised(e) == [tag |-> e, content |-> <<>>]

\* content[:500]; every text of the model is shorter.
RawResponseLen == 500
Take(t, n) == IF Len(t) <= n THEN t ELSE SubSeq(t, 1, n)

\* The mapping of lines 74-77.
ParseFailureResponse(content) ==
    Obj([k \in {"error", "raw_response"} |->
            IF k = "error" THEN Str(<<"Failed to parse model response as JSON">>)
            ELSE Str(Take(content, RawResponseLen))])

\* Lines 62-77, the handler of json.JSONDecodeError.  When the exception came
\* out of the chat call itself, content was never bound: the handler's own
\* use of it raises UnboundLocalError, at line 67 into the bare except and at
\* line 73 out of the function.
OnJSONDecodeError(chat) ==
    IF chat.tag # "ok" THEN Raised("UnboundLocalError", <<>>)
    ELSE Only({ IF json_match.found /\ loaded.ok
                THEN Returned(loaded.val)
                ELSE Returned(ParseFailureResponse(chat.content))
                : json_match \in {BraceSpan(chat.content)},
                  loaded \in {json_loads(BraceSpan(chat.content).group)} })

\* Lines 36-60, the try block.
TryGetAnalysis(chat) ==
    IF chat.tag # "ok" THEN Raised(chat.tag, <<>>)
    ELSE extract_json_from_model_response(chat.content)

get_analysis(chat) ==
    Only({ IF tried.tag = "ok" THEN tried
           ELSE IF IsInstance(tried.tag, "JSONDecodeError") THEN OnJSONDecodeError(chat)
           ELSE tried      \* except Exception: log and raise
           : tried \in {TryGetAnalysis(chat)} })

-----------------------------------------------------------------------------
(* The payloads                                                             *)

\* The speed of a location sample: a number, null, absent, or a value that
\* is no number (a string).
SpeedNum(n) == [k |-> "num", v |-> n]
SpeedNull == [k |-> "null", v |-> 0]
SpeedMissing == [k |-> "missing", v |-> 0]
SpeedStr == [k |-> "str", v |-> 0]

\* point.get("speed", 0) and point.get("speed")
GetSpeedOr0(point) == IF point.k = "missing" THEN SpeedNum(0) ELSE point
GetSpeed(point) == IF point.k = "missing" THEN SpeedNull ELSE point

\* crime_data: a list of n records, or (a direct caller's) None.
CrimeList(n) == [k |-> "list", n |-> n]
CrimeNone == [k |-> "null", n |-> 0]

\* time_of_day: a string, or (a direct caller's) None.
TimeStr(v) == [k |-> "str", v |-> v]
TimeNone == [k |-> "null", v |-> ""]

TimesOfDay == {"afternoon", "late evening", "Night", "morning"}

\* str.lower()
Lower(v) ==
    IF v = "Night" THEN "night" ELSE IF v = "EVENING" THEN "evening" ELSE v

\* word in text, for the lower-cased times of day
Contains(text, word) ==
    \/ text = "late evening" /\ word \in {"late", "evening"}
    \/ text = "night" /\ word = "night"
    \/ text = "evening" /\ word = "evening"
    \/ text = "translate" /\ word = "late"

\* datetime.utcnow().isoformat()
UtcNow == Str(<<"utcnow">>)

-----------------------------------------------------------------------------
(* MovementAnalysisService                                                  *)

RECURSIVE SelectSpeeds(_)
\* [point.get("speed", 0) for point in historical_data
\*      if point.get("speed") is not None]
SelectSpeeds(historical_data) ==
    IF historical_data = <<>> THEN <<>>
    ELSE LET point == Head(historical_data) IN
         (IF GetSpeed(point).k # "null" THEN <<GetSpeedOr0(point)>> ELSE <<>>)
             \o SelectSpeeds(Tail(historical_data))

RECURSIVE SumSpeeds(_), MaxSpeeds(_)
SumSpeeds(speeds) == IF speeds = <<>> THEN 0 ELSE Head(speeds).v + SumSpeeds(Tail(speeds))
MaxSpeeds(speeds) ==
    IF Len(speeds) = 1 THEN Head(speeds).v
    ELSE LET rest == MaxSpeeds(Tail(speeds)) IN
         IF Head(speeds).v > rest THEN Head(speeds).v ELSE rest

AllNumbers(speeds) == \A i \in 1..Len(speeds) : speeds[i].k = "num"

\* (a rule that looks at the maximum only)
AbnormalSpeedMaxOnly(current_speed, speeds) ==
    current_speed * 10 > (IF Len(speeds) = 0 THEN 0 ELSE MaxSpeeds(speeds)) * 12

\* current_speed > max_speed * 1.2 or current_speed > avg_speed * 1.5, with
\* avg_speed = sum / len, in integers.
AbnormalSpeed(current_speed, speeds) ==
    LET n == Len(speeds)
        total == SumSpeeds(speeds)
        max_speed == IF n = 0 THEN 0 ELSE MaxSpeeds(speeds)
    IN \/ current_speed * 10 > max_speed * 12
       \/ IF n = 0 THEN current_speed > 0
          ELSE current_speed * n * 10 > total * 15

MovementResult(abnormal_speed, user_id) ==
    Obj([k \in {"abnormal_speed", "sudden_stop", "route_deviation", "safety_concerns",
                "risk_level", "reasoning", "recommended_action", "is_fallback",
                "analysis_timestamp", "user_id"} |->
        CASE k = "abnormal_speed" -> Bool(abnormal_speed)
          [] k = "sudden_stop" -> Bool(FALSE)
          [] k = "route_deviation" -> Bool(FALSE)
          [] k = "safety_concerns" -> Bool(abnormal_speed)
          [] k = "risk_level" -> Num(IF abnormal_speed THEN 7 ELSE 2)
          [] k = "reasoning" -> Str(<<"Fallback analysis: Speed analysis only">>)
          [] k = "recommended_action" ->
                Str(<<IF abnormal_speed THEN "Monitor speed" ELSE "No action needed">>)
          [] k = "is_fallback" -> Bool(TRUE)
          [] k = "analysis_timestamp" -> UtcNow
          [] k = "user_id" -> Str(<<user_id>>)])

MovementErrorResult(message, user_id) ==
    Obj([k \in {"abnormal_speed", "sudden_stop", "route_deviation", "safety_concerns",
                "risk_level", "reasoning", "recommended_action", "is_fallback",
                "error", "analysis_timestamp", "user_id"} |->
        CASE k = "abnormal_speed" -> Bool(FALSE)
          [] k = "sudden_stop" -> Bool(FALSE)
          [] k = "route_deviation" -> Bool(FALSE)
          [] k = "safety_concerns" -> Bool(FALSE)
          [] k = "risk_level" -> Num(1)
          [] k = "reasoning" -> Str(<<"Error in analysis system">>)
          [] k = "recommended_action" -> Str(<<"Check system logs">>)
          [] k = "is_fallback" -> Bool(TRUE)
          [] k = "error" -> Str(<<message>>)
          [] k = "analysis_timestamp" -> UtcNow
          [] k = "user_id" -> Str(<<user_id>>)])

\* A service call's outcome: what it returned or raised, and the path that
\* produced it ("ai", "fallback", "degraded").
Outcome(r, path) == [tag |-> r.tag, val |-> r.val, doc |-> r.doc, path |-> path]

\* Lines 57-86, the try block of the fallback: sum() raises on a speed that
\* is no number, the comparison on a current speed that is None or no number.
TryFallbackMovement(historical_data, current_data, user_id) ==
    LET current_speed == GetSpeedOr0(current_data)
        historical_speeds == SelectSpeeds(historical_data)
    IN IF ~AllNumbers(historical_speeds)
       THEN Raised("TypeError", <<"unsupported operand type(s) for +">>)
       ELSE IF current_speed.k # "num"
       THEN Raised("TypeError", <<"'>' not supported between instances">>)
       ELSE Returned(MovementResult(AbnormalSpeed(current_speed.v, historical_speeds), user_id))

_fallback_movement_analysis(historical_data, current_data, user_id) ==
    Only({ IF tried.tag = "ok" THEN Outcome(tried, "fallback")
           ELSE IF IsInstance(tried.tag, "Exception")
           THEN Outcome(Returned(MovementErrorResult(tried.doc[1], user_id)), "degraded")
           ELSE Outcome(tried, "fallback")
           : tried \in {TryFallbackMovement(historical_data, current_data, user_id)} })

\* (item assignments that keep what is there)
StampIfAbsent(analysis_result, user_id) ==
    IF IsMapping(analysis_result)
    THEN Returned(Obj([k \in (DOMAIN analysis_result.m) \cup {"analysis_timestamp", "user_id"} |->
                        IF k \in DOMAIN analysis_result.m THEN analysis_result.m[k]
                        ELSE IF k = "user_id" THEN Str(<<user_id>>) ELSE UtcNow]))
    ELSE Raised("TypeError", <<"object does not support item assignment">>)

\* Lines 39-43: the two item assignments raise TypeError on a value that is
\* no dict (a list, a string, a number, None).
Stamp(analysis_result, user_id) ==
    IF IsMapping(analysis_result)
    THEN Returned(SetItem(SetItem(analysis_result, "analysis_timestamp", UtcNow),
                          "user_id", Str(<<user_id>>)))
    ELSE Raised("TypeError", <<"object does not support item assignment">>)

\* (a wait for the reply that gives up)
TryAnalyzeTimesOut(chat, user_id) == Raised("TimeoutError", <<"timed out">>)

\* Lines 31-43, the try block: the prompt is built from a payload that came
\* as JSON, so json.dumps takes it.
TryAnalyze(chat, user_id) ==
    Only({ IF analysis_result.tag = "ok" THEN Stamp(analysis_result.val, user_id)
           ELSE analysis_result
           : analysis_result \in {get_analysis(chat)} })

\* (a handler that takes only the parse errors)
ServiceCatchesValueError(e) == IsInstance(e, "ValueError")

\* (no handler)
ServiceCatchesNothing(e) == FALSE

\* except Exception
ServiceCatches(e) == IsInstance(e, "Exception")

analyze_movement(historical_data, current_data, user_id, chat) ==
    Only({ IF tried.tag = "ok" THEN Outcome(tried, "ai")
           ELSE IF ServiceCatches(tried.tag)
           THEN _fallback_movement_analysis(historical_data, current_data, user_id)
           ELSE Outcome(tried, "ai")
           : tried \in {TryAnalyze(chat, user_id)} })

-----------------------------------------------------------------------------
(* RouteSafetyService                                                       *)

night_hours == {"evening", "night", "late"}

\* (no floor)
FirstOf(a, b) == a

Max2(a, b) == IF a > b THEN a ELSE b

RouteResult(safety_score, time_concerns, user_id) ==
    Obj([k \in {"safety_score", "risky_segments", "time_of_day_concerns",
                "recommendation", "safe_alternative_available", "is_fallback",
                "analysis_timestamp", "user_id"} |->
        CASE k = "safety_score" -> Num(safety_score)
          [] k = "risky_segments" -> List0
          [] k = "time_of_day_concerns" -> Bool(time_concerns)
          [] k = "recommendation" ->
                Str(<<IF time_concerns THEN "Consider daytime travel"
                      ELSE "Route appears acceptable">>)
          [] k = "safe_alternative_available" -> Bool(FALSE)
          [] k = "is_fallback" -> Bool(TRUE)
          [] k = "analysis_timestamp" -> UtcNow
          [] k = "user_id" -> Str(<<user_id>>)])

RouteErrorResult(message, user_id) ==
    Obj([k \in {"safety_score", "risky_segments", "time_of_day_concerns",
                "recommendation", "safe_alternative_available", "is_fallback",
                "error", "analysis_timestamp", "user_id"} |->
        CASE k = "safety_score" -> Num(5)
          [] k = "risky_segments" -> List0
          [] k = "time_of_day_concerns" -> Bool(FALSE)
          [] k = "recommendation" -> Str(<<"Error in analysis system">>)
          [] k = "safe_alternative_available" -> Bool(FALSE)
          [] k = "is_fallback" -> Bool(TRUE)
          [] k = "error" -> Str(<<message>>)
          [] k = "analysis_timestamp" -> UtcNow
          [] k = "user_id" -> Str(<<user_id>>)])

\* Lines 60-83, the try block of the fallback: len() raises on a crime_data
\* that is None, .lower() on a time_of_day that is None.
TryFallbackRoute(crime_data, time_of_day, user_id) ==
    IF crime_data.k # "list"
    THEN Raised("TypeError", <<"object of type 'NoneType' has no len()">>)
    ELSE IF time_of_day.k # "str"
    THEN Raised("AttributeError", <<"'NoneType' object has no attribute 'lower'">>)
    ELSE LET crime_count == crime_data.n
             base == IF crime_count < 10 THEN Max2(10 - crime_count, 1) ELSE 1
             time_concerns == \E word \in night_hours : Contains(Lower(time_of_day.v), word)
             safety_score == IF time_concerns THEN Max2(base - 2, 1) ELSE base
         IN Returned(RouteResult(safety_score, time_concerns, user_id))

_fallback_route_safety(crime_data, time_of_day, user_id) ==
    Only({ IF tried.tag = "ok" THEN Outcome(tried, "fallback")
           ELSE IF IsInstance(tried.tag, "Exception")
           THEN Outcome(Returned(RouteErrorResult(tried.doc[1], user_id)), "degraded")
           ELSE Outcome(tried, "fallback")
           : tried \in {TryFallbackRoute(crime_data, time_of_day, user_id)} })

analyze_route_safety(crime_data, time_of_day, user_id, chat) ==
    Only({ IF tried.tag = "ok" THEN Outcome(tried, "ai")
           ELSE IF ServiceCatches(tried.tag)
           THEN _fallback_route_safety(crime_data, time_of_day, user_id)
           ELSE Outcome(tried, "ai")
           : tried \in {TryAnalyze(chat, user_id)} })

-----------------------------------------------------------------------------
(* The requests                                                             *)

MaxReplyLen == 2    \* lexemes in an enumerated backend reply
MaxHist == 1        \* samples in historical_data
MaxCrimes == 3      \* records in crime_data

Kinds == {"movement", "route"}

\* The fields of MovementAnalysisRequest and RouteSafetyRequest, all required.
RequiredFields(kind) ==
    IF kind = "movement" THEN {"historical_data", "current_data", "user_id"}
    ELSE {"route_points", "crime_data", "time_of_day", "user_id"}

UserIds == {"alice", ""}
HistSpeeds == {SpeedNum(5), SpeedNull, SpeedStr}
CurrentSpeeds == {SpeedMissing, SpeedNull, SpeedNum(0), SpeedNum(7), SpeedStr}

\* A request body.  present: the fields the body has; the values of the
\* fields of the other kind are not used.
Body(present, user_id, historical_data, current_data, crime_data, time_of_day) ==
    [present |-> present, user_id |-> user_id,
     historical_data |-> historical_data, current_data |-> current_data,
     crime_data |-> crime_data, time_of_day |-> time_of_day]

Presents(kind) ==
    {RequiredFields(kind)} \cup {RequiredFields(kind) \ {f} : f \in RequiredFields(kind)}

Bodies(kind) ==
    IF kind = "movement"
    THEN {Body(p, u, h, c, CrimeList(0), TimeStr("morning")) :
             p \in Presents(kind), u \in UserIds,
             h \in SeqsUpTo(HistSpeeds, MaxHist), c \in CurrentSpeeds}
    ELSE {Body(p, u, <<>>, SpeedMissing, cd, t) :
             p \in Presents(kind), u \in UserIds,
             cd \in {CrimeList(n) : n \in 0..MaxCrimes} \cup {CrimeNone},
             t \in {TimeStr(v) : v \in TimesOfDay} \cup {TimeNone}}

\* pydantic on the body: every field there, user_id and time_of_day strings,
\* the data fields lists and dicts (whose items may hold anything).
Validates(kind, body) ==
    /\ RequiredFields(kind) \subseteq body.present
    /\ kind = "route" => body.crime_data.k = "list" /\ body.time_of_day.k = "str"

\* The answers a model may give, as JSON values.
MovementAnswer(risk_level) ==
    Obj([k \in {"abnormal_speed", "sudden_stop", "route_deviation", "safety_concerns",
                "risk_level", "reasoning", "recommended_action"} |->
        CASE k \in {"abnormal_speed", "safety_concerns"} -> Bool(TRUE)
          [] k \in {"sudden_stop", "route_deviation"} -> Bool(FALSE)
          [] k = "risk_level" -> Num(risk_level)
          [] k = "reasoning" -> Str(<<W>>)
          [] k = "recommended_action" -> Str(<<W>>)])

RouteAnswer(safety_score) ==
    Obj([k \in {"safety_score", "risky_segments", "time_of_day_concerns",
                "recommendation", "safe_alternative_available"} |->
        CASE k = "safety_score" -> Num(safety_score)
          [] k = "risky_segments" -> List0
          [] k = "time_of_day_concerns" -> Bool(TRUE)
          [] k = "recommendation" -> Str(<<W>>)
          [] k = "safe_alternative_available" -> Bool(FALSE)])

Without(v, k) == Obj([x \in (DOMAIN v.m) \ {k} |-> v.m[x]])

ModelAnswers ==
    {MovementAnswer(6), MovementAnswer(42), Without(MovementAnswer(6), "risk_level"),
     SetItem(SetItem(MovementAnswer(6), "user_id", Str(<<"mallory">>)),
             "analysis_timestamp", Str(<<"1970">>)),
     SetItem(MovementAnswer(6), "is_fallback", Bool(TRUE)),
     SetItem(MovementAnswer(6), "error", Str(<<W>>)),
     RouteAnswer(7), RouteAnswer(42), RouteAnswer(0), Without(RouteAnswer(7), "safety_score"),
     SetItem(RouteAnswer(7), "is_fallback", Bool(TRUE)),
     Obj(NoMembers), Num(6), Null, List0, Str(<<W>>), Str(<<FE>>),
     SetItem(MovementAnswer(6), "reasoning", Str(<<TO, W, TC>>))}

\* The texts a model may wrap an answer a (as JSON text) in.
Wrappings(a) ==
    {<<FJ>> \o a \o <<FE>>,
     a,
     <<W>> \o a \o <<W>>,
     <<TO, W, TC, W, FJ>> \o a \o <<FE, W>>,
     <<TO>> \o a \o <<TC>>,
     <<TO>> \o a \o <<TC, FJ, W, FE>>,
     <<FJ, W, FE>> \o a}

ReplyToks == {TO, TC, FJ, FE, LB, RB, "6", W}

Replies ==
    SeqsUpTo(ReplyToks, MaxReplyLen)
    \cup UNION {Wrappings(json_dumps(v)) : v \in ModelAnswers}

ChatErrors == TransportErrors \cup {"JSONDecodeError"}

NoChat == [tag |-> "pending", content |-> <<>>]
NoOutcome == [tag |-> "pending", val |-> Null, doc |-> <<>>, path |-> "none"]
NoResponse == [status |-> 0, detail |-> <<>>, body |-> Null]

\* A request before it is made.
Idle ==
    [pc |-> "idle", entry |-> "none", kind |-> "movement",
     body |-> Body({}, "", <<>>, SpeedMissing, CrimeList(0), TimeStr("morning")),
     ctor |-> "none", calls |-> 0, chat |-> NoChat,
     analysis |-> Raised("pending", <<>>), out |-> NoOutcome,
     response |-> NoResponse]

Requests == {"r1"}

Init ==
    /\ xphase = "start"
    /\ xin = <<>>
    /\ xfrom = NotEmbedded
    /\ xout = Returned(Null)
    /\ req = [r \in Requests |-> Idle]

\* The answer to a request: status, the detail of an error answer, the body
\* of a 200.
Response(status, detail, body) == [status |-> status, detail |-> detail, body |-> body]

\* FastAPI resolves Depends(get_movement_service) / Depends(get_route_safety_service)
\* and validates the body before the handler runs: an exception of the
\* dependency (the service's constructor builds the AIService and its
\* AsyncClient) is not handled by anyone and is answered 500; a body that
\* does not validate is answered 422; otherwise the handler calls the service,
\* which runs up to its await of the chat call.
PostRequest ==
    /\ \E r \in DOMAIN req :
          /\ req[r].pc = "idle"
          /\ \E kind \in Kinds, ctor \in {"ok", "raised"} :
             \E body \in Bodies(kind) :
             LET posted == [req[r] EXCEPT !.entry = "http", !.kind = kind,
                                          !.body = body, !.ctor = ctor]
             IN req' = [req EXCEPT ![r] =
                IF ctor = "raised"
                THEN [posted EXCEPT !.pc = "responded",
                         !.response = Response(500, <<>>, Str(<<"Internal Server Error">>))]
                ELSE IF ~Validates(kind, body)
                THEN [posted EXCEPT !.pc = "responded",
                         !.response = Response(422, <<"field required">>, Null)]
                ELSE [posted EXCEPT !.pc = "awaiting", !.calls = 1]]
    /\ UNCHANGED <<xphase, xin, xfrom, xout>>

\* A caller that holds a service calls analyze_movement / analyze_route_safety
\* itself, with whatever arguments it has.
CallService ==
    /\ \E r \in DOMAIN req :
          /\ req[r].pc = "idle"
          /\ \E kind \in Kinds :
             \E body \in {b \in Bodies(kind) : b.present = RequiredFields(kind)} :
             req' = [req EXCEPT ![r] =
                    [@ EXCEPT !.entry = "direct", !.kind = kind, !.body = body,
                              !.ctor = "ok", !.pc = "awaiting", !.calls = 1]]
    /\ UNCHANGED <<xphase, xin, xfrom, xout>>

\* (a service object that all requests share and that keeps the user_id of
\* some request in flight)
AnalyzeWithSharedUser(rq, chat) ==
    LET user_id == req[CHOOSE s \in DOMAIN req : req[s].pc # "idle"].body.user_id IN
    IF rq.kind = "movement"
    THEN analyze_movement(rq.body.historical_data, rq.body.current_data, user_id, chat)
    ELSE analyze_route_safety(rq.body.crime_data, rq.body.time_of_day, user_id, chat)

Analyze(rq, chat) ==
    IF rq.kind = "movement"
    THEN analyze_movement(rq.body.historical_data, rq.body.current_data,
                          rq.body.user_id, chat)
    ELSE analyze_route_safety(rq.body.crime_data, rq.body.time_of_day,
                              rq.body.user_id, chat)

\* (a handler that answers with whatever it has)
HandlerResponseOk(out) == Response(200, <<>>, out.val)

\* Lines 30-41 and 49-61 of routes.py around the service call: str(e) is the
\* message of the exception.
HandlerResponse(out) ==
    IF out.tag = "ok" THEN Response(200, <<>>, out.val)
    ELSE Response(500, <<"Analysis error: ">> \o out.doc, Null)

\* What a service put in place of the real one (the endpoint tests patch the
\* service class) raises from its analyze operation.
ServiceErrors ==
    {Raised("Exception", <<"Test error">>), Raised("RuntimeError", <<"boom">>)}

\* A request to an endpoint whose service is such a stand-in: the body is
\* validated, the handler calls the service, the call raises.
PostToFailingService ==
    /\ \E r \in DOMAIN req :
          /\ req[r].pc = "idle"
          /\ \E kind \in Kinds, e \in ServiceErrors :
             \E body \in Bodies(kind) :
             LET posted == [req[r] EXCEPT !.entry = "http", !.kind = kind,
                                          !.body = body, !.ctor = "patched"]
             IN req' = [req EXCEPT ![r] =
                IF ~Validates(kind, body)
                THEN [posted EXCEPT !.pc = "responded",
                         !.response = Response(422, <<"field required">>, Null)]
                ELSE [posted EXCEPT !.pc = "responded",
                         !.out = Outcome(e, "none"),
                         !.response = HandlerResponse(Outcome(e, "none"))]]
    /\ UNCHANGED <<xphase, xin, xfrom, xout>>

\* The rest of the call, from the await on.  chat: what the await gave;
\* analysis: what get_analysis gave the service; out: what the service gave
\* its caller.
Resume(rq, chat) ==
    Only({ IF rq.entry = "http"
           THEN [rq EXCEPT !.pc = "responded", !.chat = chat, !.out = out,
                           !.analysis = get_analysis(chat),
                           !.response = HandlerResponse(out)]
           ELSE [rq EXCEPT !.pc = IF out.tag = "ok" THEN "returned" ELSE "raised",
                           !.chat = chat, !.out = out,
                           !.analysis = get_analysis(chat)]
           : out \in {Analyze(rq, chat)} })

\* The chat call returns a response with some text as its content.
BackendReplies ==
    /\ \E r \in DOMAIN req :
          /\ req[r].pc = "awaiting"
          /\ \E text \in Replies : req' = [req EXCEPT ![r] = Resume(req[r], ChatReturned(text))]
    /\ UNCHANGED <<xphase, xin, xfrom, xout>>

\* The chat call raises.
BackendRaises ==
    /\ \E r \in DOMAIN req :
          /\ req[r].pc = "awaiting"
          /\ \E e \in ChatErrors : req' = [req EXCEPT ![r] = Resume(req[r], ChatRaised(e))]
    /\ UNCHANGED <<xphase, xin, xfrom, xout>>

Next ==
    \/ PostRequest
    \/ CallService
    \/ BackendReplies
    \/ BackendRaises
    \/ PostToFailingService

Spec == Init /\ [][Next]_vars

-----------------------------------------------------------------------------
(* Requests in flight together.  Each handler is a coroutine on one event    *)
(* loop: it runs to its await of the chat call, the call completes at some   *)
(* time or never, and the loop then resumes the coroutine, which runs to its *)
(* end without another await.                                               *)

MaxRequests == 2    \* requests in flight together

RequestIds == 1..MaxRequests

\* Two clients: alice asks for movement analyses, bob for route evaluations.
ConcurrentBodies(kind) ==
    IF kind = "movement"
    THEN {Body(RequiredFields(kind), "alice", <<>>, SpeedNum(7), CrimeList(0),
               TimeStr("morning"))}
    ELSE {Body(RequiredFields(kind), "bob", <<>>, SpeedMissing, CrimeList(2),
               TimeStr("afternoon"))}

ConcurrentChats ==
    {ChatReturned(<<FJ>> \o json_dumps(Obj([k \in {"risk_level"} |-> Num(6)])) \o <<FE>>),
     ChatReturned(<<W>>),
     ChatRaised("ConnectError")}

ConcurrentInit ==
    /\ xphase = "start"
    /\ xin = <<>>
    /\ xfrom = NotEmbedded
    /\ xout = Returned(Null)
    /\ req = [r \in RequestIds |-> Idle]

\* A request arrives: its service is built, its body validates, the handler
\* calls the service, which runs up to its await of the chat call.
Arrive ==
    /\ \E r \in DOMAIN req :
          /\ req[r].pc = "idle"
          /\ \E kind \in Kinds :
             \E body \in ConcurrentBodies(kind) :
             /\ Validates(kind, body)
             /\ req' = [req EXCEPT ![r] =
                    [@ EXCEPT !.entry = "http", !.kind = kind, !.body = body,
                              !.ctor = "ok", !.pc = "awaiting", !.calls = 1]]
    /\ UNCHANGED <<xphase, xin, xfrom, xout>>

\* The chat call of a request completes, with a reply or an exception: its
\* coroutine is ready to run.
ChatCompletes ==
    /\ \E r \in DOMAIN req :
          /\ req[r].pc = "awaiting"
          /\ \E chat \in ConcurrentChats :
             req' = [req EXCEPT ![r] = [@ EXCEPT !.chat = chat, !.pc = "ready"]]
    /\ UNCHANGED <<xphase, xin, xfrom, xout>>

\* The event loop resumes the coroutine of request r.
Continue(r) ==
    /\ req[r].pc = "ready"
    /\ req' = [req EXCEPT ![r] = Resume(req[r], req[r].chat)]
    /\ UNCHANGED <<xphase, xin, xfrom, xout>>

EventLoopResumes == \E r \in DOMAIN req : Continue(r)

ConcurrentNext ==
    \/ Arrive
    \/ ChatCompletes
    \/ EventLoopResumes

SpecC == ConcurrentInit /\ [][ConcurrentNext]_vars

\* The event loop runs every coroutine that is ready; a chat call may never
\* complete.
SpecL == SpecC /\ \A r \in RequestIds : WF_vars(Continue(r))

-----------------------------------------------------------------------------
(* The Fallback Analyzer called by itself, as the services' tests call it   *)

MaxFallbackHist == 3      \* samples in historical_data
MaxFallbackCrimes == 11   \* records in crime_data

\* Speeds in tenths of a unit (48 is 4.8): the rule compares products of the
\* speeds, so it does not depend on the unit.
FallbackHistSpeeds ==
    {SpeedNum(0), SpeedNum(48), SpeedNum(50), SpeedNum(52),
     SpeedNull, SpeedMissing, SpeedStr}
FallbackCurrentSpeeds ==
    {SpeedMissing, SpeedNull, SpeedStr,
     SpeedNum(0), SpeedNum(48), SpeedNum(60), SpeedNum(61), SpeedNum(85)}
FallbackTimes == TimesOfDay \cup {"EVENING", "translate", ""}

\* service._fallback_movement_analysis(historical_data, current_data, user_id)
FallbackMovement ==
    /\ \E r \in DOMAIN req :
          /\ req[r].pc = "idle"
          /\ \E u \in UserIds, c \in FallbackCurrentSpeeds :
             \E h \in SeqsUpTo(FallbackHistSpeeds, MaxFallbackHist) :
             req' = [req EXCEPT ![r] =
                Only({ [@ EXCEPT !.entry = "fallback", !.kind = "movement",
                                 !.body = Body(RequiredFields("movement"), u, h, c,
                                               CrimeList(0), TimeStr("morning")),
                                 !.pc = IF out.tag = "ok" THEN "returned" ELSE "raised",
                                 !.out = out]
                       : out \in {_fallback_movement_analysis(h, c, u)} })]
    /\ UNCHANGED <<xphase, xin, xfrom, xout>>

\* service._fallback_route_safety(route_points, crime_data, time_of_day, user_id)
FallbackRoute ==
    /\ \E r \in DOMAIN req :
          /\ req[r].pc = "idle"
          /\ \E u \in UserIds,
                cd \in {CrimeList(n) : n \in 0..MaxFallbackCrimes} \cup {CrimeNone},
                t \in {TimeStr(v) : v \in FallbackTimes} \cup {TimeNone} :
             req' = [req EXCEPT ![r] =
                Only({ [@ EXCEPT !.entry = "fallback", !.kind = "route",
                                 !.body = Body(RequiredFields("route"), u, <<>>,
                                               SpeedMissing, cd, t),
                                 !.pc = IF out.tag = "ok" THEN "returned" ELSE "raised",
                                 !.out = out]
                       : out \in {_fallback_route_safety(cd, t, u)} })]
    /\ UNCHANGED <<xphase, xin, xfrom, xout>>

FallbackNext ==
    \/ FallbackMovement
    \/ FallbackRoute

SpecF == Init /\ [][FallbackNext]_vars

-----------------------------------------------------------------------------
(* Properties                                                               *)

\* The requests whose service call has come back from its await.
Resumed == {r \in DOMAIN req : req[r].chat.tag # "pending"}

IsFallbackResult(v) == HasKey(v, "is_fallback") /\ v.m["is_fallback"] = Bool(TRUE)

\* C1: analyze_movement and analyze_route_safety never fail: whatever the
\* payload and whatever the chat call does (returns any text, raises any
\* exception), the operation returns a mapping and raises nothing to its
\* caller.
C1_ServiceNeverFails ==
    \A r \in Resumed :
        /\ req[r].out.tag = "ok"
        /\ IsMapping(req[r].out.val)
        /\ req[r].pc # "raised"

\* C1's case: the chat call raised and so did the rule-based computation, and
\* the direct caller still got a mapping back.
C1_Witness ==
    \E r \in DOMAIN req :
        /\ req[r].entry = "direct"
        /\ req[r].chat.tag = "ConnectError"
        /\ req[r].out.path = "degraded"
        /\ req[r].pc = "returned"
        /\ IsMapping(req[r].out.val)

\* The JSON values some span of a text parses to.
SpanValues(t) ==
    {json_loads(SubSeq(t, i, j)).val :
        <<i, j>> \in {<<a, b>> \in (1..Len(t)) \X (1..Len(t)) :
                        a <= b /\ json_loads(SubSeq(t, a, b)).ok}}

\* No span of the text is a JSON object.
NoJsonObjectIn(t) == \A v \in SpanValues(t) : ~IsMapping(v)

\* C2: whenever the model text holds no parseable JSON object, the service
\* returns the Fallback Analyzer's output, a result with is_fallback = true;
\* the extraction failure shows up in the result in no other form.
C2_NoJsonGivesFallback ==
    \A r \in Resumed :
        (req[r].chat.tag = "ok" /\ NoJsonObjectIn(req[r].chat.content))
            => /\ req[r].out.tag = "ok"
               /\ IsFallbackResult(req[r].out.val)
               /\ ~HasKey(req[r].out.val, "raw_response")

\* C3: get_analysis has no fallback of its own: it returns exactly what the
\* extractor made of the reply text, or raises the very exception that the
\* chat call or the extractor raised.
C3_GetAnalysisOnlyPropagates ==
    \A r \in Resumed :
        IF req[r].chat.tag = "ok"
        THEN LET x == extract_json_from_model_response(req[r].chat.content) IN
             /\ req[r].analysis.tag = x.tag
             /\ req[r].analysis.val = x.val
        ELSE req[r].analysis.tag = req[r].chat.tag

MovementKeys ==
    {"abnormal_speed", "sudden_stop", "route_deviation", "safety_concerns",
     "risk_level", "reasoning", "recommended_action"}

InScale(v) == v.t = "num" /\ v.n \in 1..10

\* C4: every mapping analyze_movement returns has the seven keys of the
\* movement result with risk_level an integer in 1..10, and every mapping
\* analyze_route_safety returns has safety_score in 1..10: an answer that is
\* JSON but not of this schema is replaced by the Fallback Analyzer's output.
C4_ResultsHaveTheSchema ==
    \A r \in Resumed :
        req[r].out.tag = "ok" =>
            IF req[r].kind = "movement"
            THEN /\ \A k \in MovementKeys : HasKey(req[r].out.val, k)
                 /\ InScale(req[r].out.val.m["risk_level"])
            ELSE /\ HasKey(req[r].out.val, "safety_score")
                 /\ InScale(req[r].out.val.m["safety_score"])

\* C5: if the Model Client raises while a request (with a valid body) to an
\* analyze endpoint is handled, also while the client is constructed for the
\* request, the endpoint answers 200 with is_fallback = true, never 500.
C5_BackendFailureIs200Fallback ==
    \A r \in DOMAIN req :
        (/\ req[r].entry = "http"
         /\ req[r].pc = "responded"
         /\ Validates(req[r].kind, req[r].body)
         /\ (req[r].ctor = "raised" \/ req[r].chat.tag \in ChatErrors))
            => /\ req[r].response.status = 200
               /\ IsFallbackResult(req[r].response.body)

\* C6: a request that lacks a required field is answered 422 with a detail,
\* and neither the service, the Model Client nor the Fallback Analyzer runs
\* for it.
C6_MissingFieldIs422 ==
    \A r \in DOMAIN req :
        (/\ req[r].entry = "http"
         /\ req[r].pc # "idle"
         /\ ~(RequiredFields(req[r].kind) \subseteq req[r].body.present))
            => /\ req[r].pc = "responded"
               /\ req[r].response.status = 422
               /\ req[r].response.detail # <<>>
               /\ req[r].calls = 0
               /\ req[r].out.tag = "pending"

\* C7: for a text that holds a fenced json block whose interior is valid JSON,
\* whatever stands around the block and whether or not a think block stands
\* in front of it, the extractor returns exactly that JSON value.
C7_FencedJsonIsReturned ==
    (xphase = "done" /\ xfrom.emb) => xout = Returned(xfrom.val)

\* C8: round trip: for every mapping M, also one whose string values hold a
\* code fence, braces or think markup, the extractor returns a mapping equal
\* to M from the text that is json.dumps(M) in a fenced json block.
C8_RoundTrip ==
    (/\ xphase = "done"
     /\ xfrom.emb
     /\ IsMapping(xfrom.val)
     /\ xfrom.pre = <<>>
     /\ xfrom.post = <<>>)
        => (xout.tag = "ok" /\ xout.val = xfrom.val)

\* C9: what stands inside a think span of the model text never reaches the
\* caller: a mapping get_analysis returns for a reply with a think span is
\* parsed from the text that is left without the think spans.
C9_ThinkNeverReachesCaller ==
    \A r \in Resumed :
        (/\ req[r].chat.tag = "ok"
         /\ without_thinking(req[r].chat.content) # req[r].chat.content
         /\ req[r].analysis.tag = "ok"
         /\ IsMapping(req[r].analysis.val))
            => req[r].analysis.val \in SpanValues(without_thinking(req[r].chat.content))

\* C10: extraction fails in one way only: when no candidate gives a JSON
\* value (after a fenced block that does not parse, the brace span is tried),
\* it raises the one error of line 23, which carries the leading 500
\* characters of the original text.
C10_OneExtractionError ==
    (xphase = "done" /\ xout.tag # "ok")
        => /\ xout.tag = "ValueError"
           /\ xout.doc = Take(xin, RawResponseLen)
           /\ LET braces == BraceSpan(without_thinking(xin)) IN
              ~(braces.found /\ json_loads(braces.group).ok)

\* The calls of the Fallback Analyzer by itself.
FallbackCalls == {r \in DOMAIN req : req[r].entry = "fallback"}

\* The samples of a history that carry a speed.
Carrying(h) == {i \in 1..Len(h) : h[i].k \notin {"missing", "null"}}

RECURSIVE TotalSpeed(_, _)
TotalSpeed(h, I) ==
    IF I = {} THEN 0
    ELSE LET i == CHOOSE j \in I : TRUE IN h[i].v + TotalSpeed(h, I \ {i})

HistoricalMax(h) ==
    IF Carrying(h) = {} THEN 0
    ELSE CHOOSE m \in {h[i].v : i \in Carrying(h)} : \A i \in Carrying(h) : h[i].v <= m

\* current > 1.2 x max or current > 1.5 x mean, the mean being total / count
\* (0 with no sample), in tenths.
ExceedsHistory(current, h) ==
    LET n == Cardinality(Carrying(h)) IN
    \/ 10 * current > 12 * HistoricalMax(h)
    \/ IF n = 0 THEN 10 * current > 0
       ELSE 10 * current * n > 15 * TotalSpeed(h, Carrying(h))

\* The payload gives the rule numbers to work on.
SpeedsAreNumbers(body) ==
    /\ body.current_data.k \in {"num", "missing"}
    /\ \A i \in Carrying(body.historical_data) : body.historical_data[i].k = "num"

NightTimes == {"late evening", "Night", "EVENING", "translate"}

\* C12: the route fallback rule: with n crime records the base score is
\* 10 - n when n < 10 and 1 otherwise; time_of_day_concerns is true exactly
\* for a time of day that, lower-cased, contains "evening", "night" or "late",
\* and then 2 is subtracted with a floor of 1; risky_segments is empty and
\* safe_alternative_available false; the score lies in 1..10; 2 incidents in
\* the afternoon give 8 and in the late evening 6.
C12_RouteFallbackRule ==
    \A r \in FallbackCalls :
        (/\ req[r].kind = "route"
         /\ req[r].body.crime_data.k = "list"
         /\ req[r].body.time_of_day.k = "str") =>
            LET n == req[r].body.crime_data.n
                t == req[r].body.time_of_day.v
                base == IF n < 10 THEN 10 - n ELSE 1
                concerns == t \in NightTimes
                score == IF ~concerns THEN base ELSE IF base - 2 < 1 THEN 1 ELSE base - 2
                got == req[r].out.val.m
            IN /\ req[r].out.tag = "ok"
               /\ req[r].out.path = "fallback"
               /\ got["safety_score"] = Num(score)
               /\ got["safety_score"].n \in 1..10
               /\ got["time_of_day_concerns"] = Bool(concerns)
               /\ got["risky_segments"] = List0
               /\ got["safe_alternative_available"] = Bool(FALSE)
               /\ (n = 2 /\ t = "afternoon") => got["safety_score"] = Num(8)
               /\ (n = 2 /\ t = "late evening") => got["safety_score"] = Num(6)

\* C12's case: ten or more incidents at night, and the score is still 1.
C12_Witness ==
    \E r \in FallbackCalls :
        /\ req[r].kind = "route"
        /\ req[r].body.crime_data = CrimeList(10)
        /\ req[r].body.time_of_day = TimeStr("Night")
        /\ req[r].out.val.m["safety_score"] = Num(1)
        /\ req[r].out.val.m["time_of_day_concerns"] = Bool(TRUE)

\* The payload makes the rule-based computation raise.
RuleRaises(kind, body) ==
    IF kind = "movement"
    THEN \/ body.current_data.k \in {"null", "str"}
         \/ \E i \in 1..Len(body.historical_data) : body.historical_data[i].k = "str"
    ELSE body.crime_data.k # "list" \/ body.time_of_day.k # "str"

ErrorMessageIn(v) ==
    HasKey(v, "error") /\ v.m["error"].t = "str" /\ v.m["error"].s # <<>>

\* C13: the Fallback Analyzer never throws: whenever its rule-based
\* computation raises, the movement fallback returns the fixed response with
\* risk_level 1, the four flags false, is_fallback true, the caller's user_id
\* and the error message, and the route fallback the fixed response with
\* safety_score 5, no risky segments, is_fallback true, the caller's user_id
\* and the error message.
C13_FallbackNeverThrows ==
    \A r \in FallbackCalls :
        /\ req[r].out.tag = "ok"
        /\ req[r].pc = "returned"
        /\ RuleRaises(req[r].kind, req[r].body) =>
              LET got == req[r].out.val IN
              /\ IsFallbackResult(got)
              /\ ErrorMessageIn(got)
              /\ got.m["user_id"] = Str(<<req[r].body.user_id>>)
              /\ IF req[r].kind = "movement"
                 THEN /\ got.m["risk_level"] = Num(1)
                      /\ \A k \in {"abnormal_speed", "sudden_stop", "route_deviation",
                                   "safety_concerns"} : got.m[k] = Bool(FALSE)
                 ELSE /\ got.m["safety_score"] = Num(5)
                      /\ got.m["risky_segments"] = List0

\* C13's case: a current speed that is null, and a time_of_day that is None.
C13_Witness ==
    \E r \in FallbackCalls :
        /\ RuleRaises(req[r].kind, req[r].body)
        /\ req[r].kind = "movement"
        /\ req[r].body.current_data = SpeedNull
        /\ req[r].out.path = "degraded"
        /\ req[r].out.val.m["risk_level"] = Num(1)

FallbackPaths == {"fallback", "degraded"}

\* The call of get_analysis gave the service a mapping to work on.
CallSucceeded(rq) == rq.analysis.tag = "ok" /\ IsMapping(rq.analysis.val)

\* C14: no retries: during one analyze call get_analysis is invoked at most
\* once; the fallback is not started while that call is pending, it runs
\* straight after the call's failure (it raised, or what it returned is no
\* mapping), and after a call that succeeded the result is never the
\* fallback's.
C14_NoRetries ==
    \A r \in DOMAIN req :
        /\ req[r].calls <= 1
        /\ req[r].pc = "awaiting" => req[r].out.tag = "pending"
        /\ r \in Resumed =>
              /\ req[r].calls = 1
              /\ req[r].analysis.tag # "ok" => req[r].out.path \in FallbackPaths
              /\ req[r].out.path \in FallbackPaths => ~CallSucceeded(req[r])
              /\ CallSucceeded(req[r]) =>
                    req[r].out.tag = "ok" /\ req[r].out.path = "ai"

\* C14's case: the one call raised, and the result is the fallback's.
C14_Witness ==
    \E r \in Resumed :
        /\ req[r].calls = 1
        /\ req[r].chat.tag = "ResponseError"
        /\ req[r].analysis.tag = "ResponseError"
        /\ req[r].out.path = "fallback"
        /\ IsFallbackResult(req[r].out.val)

StampKeys == {"analysis_timestamp", "user_id"}

\* C15: on a successful model call the service returns the mapping it got
\* with analysis_timestamp set to the current instant and user_id to the
\* caller's, over whatever the model put under those keys, and every other
\* key as it was; on every path the returned user_id is the caller's.
C15_Stamping ==
    \A r \in Resumed :
        /\ req[r].out.tag = "ok" =>
              /\ HasKey(req[r].out.val, "user_id")
              /\ req[r].out.val.m["user_id"] = Str(<<req[r].body.user_id>>)
        /\ CallSucceeded(req[r]) =>
              LET given == req[r].analysis.val.m
                  got == req[r].out.val.m
              IN /\ req[r].out.tag = "ok"
                 /\ req[r].out.path = "ai"
                 /\ DOMAIN got = (DOMAIN given) \cup StampKeys
                 /\ got["analysis_timestamp"] = UtcNow
                 /\ got["user_id"] = Str(<<req[r].body.user_id>>)
                 /\ \A k \in (DOMAIN given) \ StampKeys : got[k] = given[k]

\* C15's case: the model gave a user_id and a timestamp of its own.
C15_Witness ==
    \E r \in Resumed :
        /\ CallSucceeded(req[r])
        /\ HasKey(req[r].analysis.val, "user_id")
        /\ req[r].analysis.val.m["user_id"] = Str(<<"mallory">>)
        /\ req[r].body.user_id = "alice"
        /\ req[r].out.val.m["user_id"] = Str(<<"alice">>)
        /\ req[r].out.val.m["analysis_timestamp"] = UtcNow

\* C16: an exception that escapes the service while an endpoint handles a
\* validated request is answered 500 with the detail "Analysis error: "
\* followed by the exception's message, never 200, never nothing.
C16_EscapedExceptionIs500 ==
    \A r \in DOMAIN req :
        (/\ req[r].entry = "http"
         /\ Validates(req[r].kind, req[r].body)
         /\ req[r].out.tag \notin {"ok", "pending"})
            => /\ req[r].pc = "responded"
               /\ req[r].response.status = 500
               /\ req[r].response.detail = <<"Analysis error: ">> \o req[r].out.doc
               /\ req[r].response.body = Null

\* C16's case: the service raised Exception("Test error").
C16_Witness ==
    \E r \in DOMAIN req :
        /\ req[r].entry = "http"
        /\ req[r].out.tag = "Exception"
        /\ req[r].response.status = 500
        /\ req[r].response.detail = <<"Analysis error: ", "Test error">>

\* C17: every request that passes validation and reaches a service has a
\* user_id that is not empty; one with the empty user_id is answered 422.
C17_UserIdNotEmpty ==
    \A r \in DOMAIN req :
        (/\ req[r].entry = "http"
         /\ req[r].ctor # "raised"
         /\ req[r].body.user_id = "")
            => /\ req[r].calls = 0
               /\ req[r].out.tag = "pending"
               /\ req[r].pc = "responded" /\ req[r].response.status = 422

\* C20: is_fallback tells the path: a returned mapping has is_fallback true
\* exactly when the Fallback Analyzer made it, has an error key only with
\* is_fallback true, and a result made from the backend's reply has neither.
C20_IsFallbackTellsThePath ==
    \A r \in Resumed :
        req[r].out.tag = "ok" =>
            /\ IsFallbackResult(req[r].out.val) <=> req[r].out.path \in FallbackPaths
            /\ HasKey(req[r].out.val, "error") => IsFallbackResult(req[r].out.val)
            /\ req[r].out.path = "ai" =>
                  ~HasKey(req[r].out.val, "is_fallback") /\ ~HasKey(req[r].out.val, "error")

\* C18: requests handled at the same time do not interfere: in every
\* interleaving of the requests in flight around their awaits of the chat
\* call, the response to a request is what its own payload and its own
\* backend reply give (it carries the request's user_id), and a step of one
\* request leaves the state of every other request as it was.
C18_NoInterference ==
    /\ [](\A r \in RequestIds :
            req[r].pc = "responded" =>
               /\ req[r].out =
                     (IF req[r].kind = "movement"
                      THEN analyze_movement(req[r].body.historical_data,
                                            req[r].body.current_data,
                                            req[r].body.user_id, req[r].chat)
                      ELSE analyze_route_safety(req[r].body.crime_data,
                                                req[r].body.time_of_day,
                                                req[r].body.user_id, req[r].chat))
               /\ req[r].response = Response(200, <<>>, req[r].out.val)
               /\ req[r].response.body.m["user_id"] = Str(<<req[r].body.user_id>>))
    /\ [][\A r, s \in RequestIds :
            (req'[r] # req[r] /\ req'[s] # req[s]) => r = s]_vars

\* C18's case: two requests of different users were in flight together and
\* the one that arrived second was answered first.
C18_Witness ==
    \E r, s \in RequestIds :
        /\ req[r].body.user_id = "alice"
        /\ req[s].body.user_id = "bob"
        /\ req[r].pc = "awaiting"
        /\ req[s].pc = "responded"
        /\ req[s].response.body.m["user_id"] = Str(<<"bob">>)

\* The reply text gives the service no mapping to work on.
Unusable(content) ==
    LET x == extract_json_from_model_response(content) IN
    x.tag # "ok" \/ ~IsMapping(x.val)

\* C19: a chat call that neither returns nor raises never triggers the
\* fallback: while the call is pending the service is suspended and there is
\* no result; the result is the Fallback Analyzer's only after the call
\* raised or returned content that could not be used; and every request
\* whose chat call has completed gets its response.
C19_HangIsNotFallback ==
    /\ [](\A r \in RequestIds :
            /\ req[r].chat.tag = "pending" =>
                  req[r].out.tag = "pending" /\ req[r].response = NoResponse
            /\ req[r].out.path \in FallbackPaths =>
                  \/ req[r].chat.tag \notin {"ok", "pending"}
                  \/ req[r].chat.tag = "ok" /\ Unusable(req[r].chat.content))
    /\ \A r \in RequestIds : (req[r].pc = "ready") ~> (req[r].pc = "responded")

\* C19's case: one chat call hangs while another request, whose call raised,
\* has its fallback result.
C19_Witness ==
    \E r, s \in RequestIds :
        /\ req[r].pc = "awaiting"
        /\ req[r].out.tag = "pending"
        /\ req[s].pc = "responded"
        /\ req[s].chat.tag = "ConnectError"
        /\ req[s].out.path = "fallback"

====
